---------------------------- MODULE Spec2Model ----------------------------
(***************************************************************************)
(* pow5 proof-of-work core of keypears (src/pow5-rs/src/lib.rs).           *)
(*                                                                         *)
(* Byte buffers are sequences of integers 0..255 (1-based here, 0-based in *)
(* the source: source index k is element k+1).  A u32 is kept as two       *)
(* 16-bit limbs <<hi, lo>> so that every intermediate stays inside the     *)
(* integers the model checker can represent while the 32-bit width of the  *)
(* source arithmetic is kept exactly.                                      *)
(***************************************************************************)
EXTENDS Integers, Sequences, FiniteSets, TLC

\* ------------------------------------------------------------------------
\* Constants of the source
\* ------------------------------------------------------------------------
HEADER_SIZE_217A == 1 + 32 + 32 + 8 + 8 + 4 + 32 + 32 + 2 + 32 + 2 + 32
NONCE_START_217A == 1 + 32 + 32 + 8 + 8 + 4 + 32
NONCE_END_217A == 1 + 32 + 32 + 8 + 8 + 4 + 32 + 4
HASH_SIZE == 32
WORK_PAR_START_217A == 1 + 32 + 32 + 8 + 8 + 4 + 32 + 32 + 2 + 32 + 2
WORK_PAR_END_217A == 1 + 32 + 32 + 8 + 8 + 4 + 32 + 32 + 2 + 32 + 2 + 32
HEADER_SIZE_64B == 64
NONCE_START_64B == 0
NONCE_END_64B == 32

\* ------------------------------------------------------------------------
\* Bounds of the model
\* ------------------------------------------------------------------------
\* Number of header fill patterns the caller can start from.
NumPatterns == 4
\* Number of members of the hash family H is drawn from.
NumKeys == 2
\* Size of the digest space of the modelled hash family.
DigestSpace == 97

\* Payloads of 0..MaxSmallPayload bytes are posted to the API, beside those
\* at the size cap.
MaxSmallPayload == 6

VARIABLES
    hkey,      \* which member of the hash family stands for H in this run
    orig,      \* the header the caller started from
    header,    \* the caller's own header buffer
    op,        \* the core operation in progress ("none": the caller is idle)
    nonce,     \* the u32 nonce passed to that call (<<hi, lo>>)
    wnonce,    \* the byte nonce passed to that call
    ret,       \* what that call returned
    headerB,   \* a second, 64-byte buffer of the caller (two-variant runs)
    retB,      \* what matmul_work_64b returned for headerB
    macRow,    \* a seed handed to one diffusion round (diffusion runs)
    macCol,    \* the working column of that round, already re-hashed
    mac,       \* the round's accumulator and its serialized bytes
    probe,     \* the nonce trial under observation and its first digest
    http,      \* one exchange with the /api/blake3 route (API runs)
    vec        \* a diffusion computed round by round (test-vector runs)

callVars == <<op, nonce, wnonce, ret>>
pairVars == <<headerB, retB>>
macVars == <<macRow, macCol, mac>>
apiVars == <<http>>
vecVars == <<vec>>
vars == <<hkey, orig, header, callVars, pairVars, macVars, probe, apiVars, vecVars>>

\* 2^16: 32-bit words are kept as two 16-bit limbs.
Limb == 65536

\* ------------------------------------------------------------------------
\* BLAKE3 itself, for inputs of one chunk (at most 1024 bytes; the core
\* hashes at most 217), to compute the digests of the tests.  32-bit words
\* are pairs <<hi, lo>> of 16-bit limbs.
\* ------------------------------------------------------------------------
\* The exclusive or of a and b below 2^16, from the bit of weight p upwards
RECURSIVE XorFrom(_, _, _)
XorFrom(a, b, p) ==
    IF p = Limb THEN 0
    ELSE (((a \div p) + (b \div p)) % 2) * p + XorFrom(a, b, 2 * p)

Xor16(a, b) == XorFrom(a, b, 1)

XorW(x, y) == <<Xor16(x[1], y[1]), Xor16(x[2], y[2])>>

AddW(x, y) ==
    <<(x[1] + y[1] + ((x[2] + y[2]) \div Limb)) % Limb, (x[2] + y[2]) % Limb>>

\* x rotated right by n <= 16 bits, with p = 2^n
Rotr(x, p) ==
    <<(x[1] \div p) + (x[2] % p) * (Limb \div p),
      (x[2] \div p) + (x[1] % p) * (Limb \div p)>>

\* The initialization vector and the message permutation
Blake3IV ==
    << <<27145, 58983>>, <<47975, 44677>>, <<15470, 62322>>, <<42319, 62778>>,
       <<20750, 21119>>, <<39685, 26764>>, <<8067, 55723>>, <<23520, 52505>> >>

MsgPermutation == <<2, 6, 3, 10, 7, 0, 4, 13, 1, 11, 12, 5, 9, 14, 15, 8>>

\* Half of the quarter round on the words q = <<a, b, c, d>> with message
\* word m: a += b + m; d = (d ^ a) >>> pd; c += d; b = (b ^ c) >>> pb,
\* one assignment after the other.
MixB(a, b, c, d, pb) == <<a, Rotr(XorW(b, c), pb), c, d>>
MixC(a, b, c, d, pb) == MixB(a, b, AddW(c, d), d, pb)
MixD(a, b, c, d, pd, pb) == MixC(a, b, c, Rotr(XorW(d, a), pd), pb)
Mix(q, m, pd, pb) == MixD(AddW(AddW(q[1], q[2]), m), q[2], q[3], q[4], pd, pb)

\* State s with the words q at a, b, c, d (0-based)
Put(s, a, b, c, d, q) ==
    [s EXCEPT ![a + 1] = q[1], ![b + 1] = q[2], ![c + 1] = q[3], ![d + 1] = q[4]]

\* The quarter round on state words a, b, c, d with message words mx, my:
\* rotations by 16, 12, 8 and 7 bits
G(s, a, b, c, d, mx, my) ==
    Put(s, a, b, c, d,
        Mix(Mix(<<s[a + 1], s[b + 1], s[c + 1], s[d + 1]>>, mx, 65536, 4096),
            my, 256, 128))

\* The state words of the eight quarter rounds of a round: the four
\* columns, then the four diagonals
Schedule ==
    << <<0, 4, 8, 12>>, <<1, 5, 9, 13>>, <<2, 6, 10, 14>>, <<3, 7, 11, 15>>,
       <<0, 5, 10, 15>>, <<1, 6, 11, 12>>, <<2, 7, 8, 13>>, <<3, 4, 9, 14>> >>

\* One round on state st.s with message m, st.g quarter rounds done
RECURSIVE RoundB3(_, _)
RoundB3(st, m) ==
    IF st.g = 8 THEN st.s
    ELSE RoundB3([g |-> st.g + 1,
                  s |-> G(st.s, Schedule[st.g + 1][1], Schedule[st.g + 1][2],
                          Schedule[st.g + 1][3], Schedule[st.g + 1][4],
                          m[2 * st.g + 1], m[2 * st.g + 2])],
                 m)

Permute(m) == [i \in 1..16 |-> m[MsgPermutation[i] + 1]] \o <<>>

\* Seven rounds, the message permuted between them; st.r counts the rounds
\* done.
RECURSIVE RoundsB3(_)
RoundsB3(st) ==
    IF st.r = 7 THEN st.s
    ELSE RoundsB3([r |-> st.r + 1,
                   s |-> RoundB3([g |-> 0, s |-> st.s], st.m),
                   m |-> Permute(st.m)])

\* The chaining value of a state after its rounds
FeedForward(s) == [i \in 1..8 |-> XorW(s[i], s[i + 8])] \o <<>>

\* The chaining value after a block of block_len bytes (counter 0)
Compress(cv, m, block_len, flags) ==
    FeedForward(
        RoundsB3([r |-> 0,
                  s |-> cv \o SubSeq(Blake3IV, 1, 4)
                           \o << <<0, 0>>, <<0, 0>>, <<0, block_len>>, <<0, flags>> >>,
                  m |-> m]))

\* The 16 little-endian words of block k (0-based) of data, zero padded
BlockWords(data, k) ==
    LET Byte(j) == IF 64 * k + j <= Len(data) THEN data[64 * k + j] ELSE 0
    IN  [w \in 1..16 |->
            <<Byte(4 * w - 1) + 256 * Byte(4 * w), Byte(4 * w - 3) + 256 * Byte(4 * w - 2)>>]
        \o <<>>

\* The blocks of data chained, st.k of them done: CHUNK_START = 1 on the
\* first, CHUNK_END = 2 and ROOT = 8 on the last of the nb.
RECURSIVE ChainB3(_, _, _)
ChainB3(data, nb, st) ==
    IF st.k = nb THEN st.cv
    ELSE ChainB3(data, nb,
             [k  |-> st.k + 1,
              cv |-> Compress(st.cv, BlockWords(data, st.k),
                              IF st.k = nb - 1 THEN Len(data) - 64 * st.k ELSE 64,
                              (IF st.k = 0 THEN 1 ELSE 0)
                                  + (IF st.k = nb - 1 THEN 2 + 8 ELSE 0))])

\* The 32 bytes of a chaining value, each word least significant byte
\* first
WordBytes(cv) ==
    [k \in 1..32 |->
        CASE (k - 1) % 4 = 0 -> cv[((k - 1) \div 4) + 1][2] % 256
          [] (k - 1) % 4 = 1 -> cv[((k - 1) \div 4) + 1][2] \div 256
          [] (k - 1) % 4 = 2 -> cv[((k - 1) \div 4) + 1][1] % 256
          [] (k - 1) % 4 = 3 -> cv[((k - 1) \div 4) + 1][1] \div 256]
        \o <<>>

Blake3(data) ==
    WordBytes(ChainB3(data,
                      IF Len(data) = 0 THEN 1 ELSE (Len(data) + 63) \div 64,
                      [k |-> 0, cv |-> Blake3IV]))

\* ------------------------------------------------------------------------
\* The hash primitive H: bytes -> [32]byte.  blake3_reference_hash is not
\* part of the sources at hand; the specification takes it as an opaque,
\* total, deterministic function.  It is modelled by a keyed family of
\* concrete functions of the whole input (content and length) with a small
\* digest space, so that distinct inputs with equal digests exist.
\* ------------------------------------------------------------------------

RECURSIVE Absorb(_, _, _)
Absorb(data, lo, hi) ==
    IF lo > hi THEN 0
    ELSE IF lo = hi THEN (data[lo] + 1 + hkey) % DigestSpace
    ELSE LET mid == (lo + hi) \div 2
         IN  (Absorb(data, lo, mid) * 33 + Absorb(data, mid + 1, hi) * 5 + 1)
                 % DigestSpace

StandIn(data) ==
    LET s == (Absorb(data, 1, Len(data)) + 3 * Len(data) + 7) % DigestSpace
    IN  [k \in 1..HASH_SIZE |-> ((s + 1) * (k + 2) * 37 + k * 11) % 256]

\* The key of the run that takes BLAKE3 itself for H.
Blake3Key == -1

blake3_reference_hash(data) ==
    IF hkey = Blake3Key THEN Blake3(data) ELSE StandIn(data)

\* ------------------------------------------------------------------------
\* u32 arithmetic of the source, on 16-bit limbs <<hi, lo>>.
\* `acc += (a as u32) * (b as u32)` with a, b widened from u8: the value
\* modulo 2^32, and whether the true result left the u32 range (a build
\* with overflow checks panics there, a build without them wraps).
\* ------------------------------------------------------------------------

\* Mutant of AddMulU32: the accumulator is only 16 bits wide.
AddMulU32_SixteenBit(acc, a, b) ==
    LET lo == acc[2] + a * b
    IN  [val |-> <<0, lo % Limb>>, overflow |-> lo >= Limb]

\* Mutant of AddMulU32: the bytes are multiplied as u8, without the casts
\* to u32, so a product of 256 or more leaves the range.
AddMulU32_ByteProduct(acc, a, b) ==
    LET p  == a * b
        lo == acc[2] + (p % 256)
        hi == acc[1] + (lo \div Limb)
    IN  [val |-> <<hi % Limb, lo % Limb>>, overflow |-> p >= 256 \/ hi >= Limb]

AddMulU32(acc, a, b) ==
    LET p  == a * b
        lo == acc[2] + (p % Limb)
        hi == acc[1] + (p \div Limb) + (lo \div Limb)
    IN  [val |-> <<hi % Limb, lo % Limb>>, overflow |-> hi >= Limb]

\* Results of the public functions: Result<Vec<u8>, String>, with the
\* number of hash evaluations and header-buffer byte writes the call made
\* and whether a u32 operation overflowed on the way.
Ok(bytes, nh, nw, ovf) ==
    [status |-> "Ok", val |-> bytes, msg |-> <<>>,
     hashes |-> nh, writes |-> nw, overflow |-> ovf]

Err(message, nh, nw) ==
    [status |-> "Err", val |-> <<>>, msg |-> message,
     hashes |-> nh, writes |-> nw, overflow |-> FALSE]

\* format!("{}", n) of an unsigned integer: its decimal digits.
Digit(d) ==
    CASE d = 0 -> "0" [] d = 1 -> "1" [] d = 2 -> "2" [] d = 3 -> "3"
      [] d = 4 -> "4" [] d = 5 -> "5" [] d = 6 -> "6" [] d = 7 -> "7"
      [] d = 8 -> "8" [] d = 9 -> "9"

RECURSIVE Display(_)
Display(n) ==
    IF n < 10 THEN <<Digit(n)>> ELSE Display(n \div 10) \o <<Digit(n % 10)>>

\* format!("header is not the correct size: expected {}, got {}", e, g)
HeaderSizeError(e, g) ==
    <<"header is not the correct size: expected ">> \o Display(e)
        \o <<", got ">> \o Display(g)

\* format!("nonce is not the correct size: expected 32, got {}", g)
NonceSizeError(g) ==
    <<"nonce is not the correct size: expected ", "3", "2", ", got ">>
        \o Display(g)

\* ------------------------------------------------------------------------
\* pow5-217a
\* ------------------------------------------------------------------------
\* matrix_c_row_1[i] += (row[j] as u32) * (column[j] as u32), for one j
MulAccStep217a(st, r) ==
    [j |-> st.j + 1, val |-> r.val, overflow |-> st.overflow \/ r.overflow]

\* for j in 0..32 { ... }
RECURSIVE MulAcc217a(_, _, _)
MulAcc217a(row, col, st) ==
    IF st.j = 32 THEN st
    ELSE MulAcc217a(row, col,
             MulAccStep217a(st, AddMulU32(st.val, row[st.j + 1], col[st.j + 1])))

\* The end of round i: accumulator i holds the inner loop's result a.
RoundStep217a(c, st, a) ==
    [i        |-> st.i + 1,
     acc      |-> [st.acc EXCEPT ![st.i + 1] = a.val],
     col      |-> c,
     hashes   |-> st.hashes + 1,
     overflow |-> st.overflow \/ a.overflow]

\* Round i with the working column already re-hashed into c.
Round217a(row, c, st) ==
    RoundStep217a(c, st,
        MulAcc217a(row, c, [j |-> 0, val |-> st.acc[st.i + 1], overflow |-> FALSE]))

\* Mutant of Rounds217a: the working column is multiplied before it is
\* re-hashed, so the row itself serves as the first column.
RECURSIVE Rounds217a_RowAsFirstColumn(_, _)
Rounds217a_RowAsFirstColumn(row, st) ==
    IF st.i = 32 THEN st
    ELSE Rounds217a_RowAsFirstColumn(row,
             [Round217a(row, st.col, st)
                 EXCEPT !.col = blake3_reference_hash(st.col)])

\* for i in 0..32 { column = hash(column); inner loop }
RECURSIVE Rounds217a(_, _)
Rounds217a(row, st) ==
    IF st.i = 32 THEN st
    ELSE Rounds217a(row, Round217a(row, blake3_reference_hash(st.col), st))

\* Mutant of PreHash217a: the accumulators are serialized least significant
\* byte first.
PreHash217a_LittleEndian(acc) ==
    [k \in 1..(32 * 4) |->
        LET x == acc[((k - 1) \div 4) + 1]
            b == (k - 1) % 4
        IN  CASE b = 0 -> x[2] % 256
              [] b = 1 -> x[2] \div 256
              [] b = 2 -> x[1] % 256
              [] b = 3 -> x[1] \div 256]

\* final_pre_hash[4i..4i+4] = x >> 24, x >> 16, x >> 8, x (each as u8)
PreHash217a(acc) ==
    [k \in 1..(32 * 4) |->
        LET x == acc[((k - 1) \div 4) + 1]
            b == (k - 1) % 4
        IN  CASE b = 0 -> x[1] \div 256
              [] b = 1 -> x[1] % 256
              [] b = 2 -> x[2] \div 256
              [] b = 3 -> x[2] % 256]

\* Mutant of get_work_par_217a: the header is hashed before its length is
\* checked.
get_work_par_217a_CheckAfterHash(hdr) ==
    LET matrix_a_row_1 == blake3_reference_hash(hdr)
    IN  IF Len(hdr) # HEADER_SIZE_217A
        THEN Err(HeaderSizeError(HEADER_SIZE_217A, Len(hdr)), 1, 0)
        ELSE LET st == Rounds217a(matrix_a_row_1,
                                  [i |-> 0,
                                   acc |-> [n \in 1..HASH_SIZE |-> <<0, 0>>],
                                   col |-> matrix_a_row_1,
                                   hashes |-> 1, overflow |-> FALSE])
                 work_par == blake3_reference_hash(PreHash217a(st.acc))
             IN  Ok(work_par, st.hashes + 1, 0, st.overflow)

get_work_par_217a(hdr) ==
    IF Len(hdr) # HEADER_SIZE_217A
    THEN Err(HeaderSizeError(HEADER_SIZE_217A, Len(hdr)), 0, 0)
    ELSE LET matrix_a_row_1 == blake3_reference_hash(hdr)
             st == Rounds217a(matrix_a_row_1,
                              [i |-> 0,
                               acc |-> [n \in 1..HASH_SIZE |-> <<0, 0>>],
                               col |-> matrix_a_row_1,
                               hashes |-> 1, overflow |-> FALSE])
             work_par == blake3_reference_hash(PreHash217a(st.acc))
         IN  Ok(work_par, st.hashes + 1, 0, st.overflow)

\* Mutant of InsertWorkPar217a: the digest is written from the nonce offset.
InsertWorkPar217a_AtNonce(hdr, work_par) ==
    [k \in 1..Len(hdr) |->
        IF k - 1 >= NONCE_START_217A /\ k - 1 < NONCE_START_217A + HASH_SIZE
        THEN work_par[(k - 1) - NONCE_START_217A + 1]
        ELSE hdr[k]]

\* working_header[i] = work_par[i - WORK_PAR_START_217A] for i in START..END
InsertWorkPar217a(hdr, work_par) ==
    [k \in 1..Len(hdr) |->
        IF k - 1 >= WORK_PAR_START_217A /\ k - 1 < WORK_PAR_END_217A
        THEN work_par[(k - 1) - WORK_PAR_START_217A + 1]
        ELSE hdr[k]]

\* Mutant of elementary_iteration_217a: the work digest is cached across
\* calls, so a 32-byte result left by the previous call is taken for it.
elementary_iteration_217a_Stale(hdr) ==
    IF Len(hdr) # HEADER_SIZE_217A
    THEN Err(HeaderSizeError(HEADER_SIZE_217A, Len(hdr)), 0, 0)
    ELSE LET work_par == IF ret.status = "Ok" /\ Len(ret.val) = HASH_SIZE
                         THEN ret
                         ELSE get_work_par_217a(hdr)
         IN  IF work_par.status # "Ok"
             THEN work_par
             ELSE LET working_header == InsertWorkPar217a(hdr, work_par.val)
                      hash_1 == blake3_reference_hash(working_header)
                      hash_2 == blake3_reference_hash(hash_1)
                  IN  Ok(hash_2, work_par.hashes + 2,
                         WORK_PAR_END_217A - WORK_PAR_START_217A,
                         work_par.overflow)

elementary_iteration_217a(hdr) ==
    IF Len(hdr) # HEADER_SIZE_217A
    THEN Err(HeaderSizeError(HEADER_SIZE_217A, Len(hdr)), 0, 0)
    ELSE LET work_par == get_work_par_217a(hdr)
         IN  IF work_par.status # "Ok"
             THEN work_par
             ELSE LET working_header == InsertWorkPar217a(hdr, work_par.val)
                      hash_1 == blake3_reference_hash(working_header)
                      hash_2 == blake3_reference_hash(hash_1)
                  IN  Ok(hash_2, work_par.hashes + 2,
                         WORK_PAR_END_217A - WORK_PAR_START_217A,
                         work_par.overflow)

\* Mutant of ToBeBytes: the nonce is laid out least significant byte first.
ToBeBytes_LittleEndian(n) ==
    <<n[2] % 256, n[2] \div 256, n[1] % 256, n[1] \div 256>>

\* nonce.to_be_bytes() of a u32 <<hi, lo>>
ToBeBytes(n) == <<n[1] \div 256, n[1] % 256, n[2] \div 256, n[2] % 256>>

\* dst[from..to].copy_from_slice(src); panics unless to - from = src.len()
CopyFromSlice(dst, from, to, src) ==
    [k \in 1..Len(dst) |->
        IF k - 1 >= from /\ k - 1 < to THEN src[(k - 1) - from + 1] ELSE dst[k]]

insert_nonce_217a(hdr, n) ==
    IF Len(hdr) # HEADER_SIZE_217A
    THEN Err(HeaderSizeError(HEADER_SIZE_217A, Len(hdr)), 0, 0)
    ELSE Ok(CopyFromSlice(hdr, NONCE_START_217A, NONCE_END_217A, ToBeBytes(n)),
            0, NONCE_END_217A - NONCE_START_217A, FALSE)

\* ------------------------------------------------------------------------
\* pow5-64b
\* ------------------------------------------------------------------------
\* matrix_c_row_1[i] += (row[j] as u32) * (column[j] as u32), for one j
MulAccStep64b(st, r) ==
    [j |-> st.j + 1, val |-> r.val, overflow |-> st.overflow \/ r.overflow]

\* for j in 0..32 { ... }
RECURSIVE MulAcc64b(_, _, _)
MulAcc64b(row, col, st) ==
    IF st.j = 32 THEN st
    ELSE MulAcc64b(row, col,
             MulAccStep64b(st, AddMulU32(st.val, row[st.j + 1], col[st.j + 1])))

\* The end of round i: accumulator i holds the inner loop's result a.
RoundStep64b(c, st, a) ==
    [i        |-> st.i + 1,
     acc      |-> [st.acc EXCEPT ![st.i + 1] = a.val],
     col      |-> c,
     hashes   |-> st.hashes + 1,
     overflow |-> st.overflow \/ a.overflow]

\* Round i with the working column already re-hashed into c.
Round64b(row, c, st) ==
    RoundStep64b(c, st,
        MulAcc64b(row, c, [j |-> 0, val |-> st.acc[st.i + 1], overflow |-> FALSE]))

\* for i in 0..32 { column = hash(column); inner loop }
RECURSIVE Rounds64b(_, _)
Rounds64b(row, st) ==
    IF st.i = 32 THEN st
    ELSE Rounds64b(row, Round64b(row, blake3_reference_hash(st.col), st))

\* Mutant of PreHash64b: each accumulator is laid out least significant
\* byte first.
PreHash64b_LittleEndian(acc) ==
    [k \in 1..(32 * 4) |->
        LET x == acc[((k - 1) \div 4) + 1]
            b == (k - 1) % 4
        IN  CASE b = 0 -> x[2] % 256
              [] b = 1 -> x[2] \div 256
              [] b = 2 -> x[1] % 256
              [] b = 3 -> x[1] \div 256]

\* final_pre_hash[4i..4i+4] = x >> 24, x >> 16, x >> 8, x (each as u8)
PreHash64b(acc) ==
    [k \in 1..(32 * 4) |->
        LET x == acc[((k - 1) \div 4) + 1]
            b == (k - 1) % 4
        IN  CASE b = 0 -> x[1] \div 256
              [] b = 1 -> x[1] % 256
              [] b = 2 -> x[2] \div 256
              [] b = 3 -> x[2] % 256]

\* Mutant of matmul_work_64b: the final hash is left out and the 128-byte
\* serialized accumulators are returned.
matmul_work_64b_NoFinalHash(hdr) ==
    IF Len(hdr) # HEADER_SIZE_64B
    THEN Err(HeaderSizeError(HEADER_SIZE_64B, Len(hdr)), 0, 0)
    ELSE LET matrix_a_row_1 == blake3_reference_hash(hdr)
             st == Rounds64b(matrix_a_row_1,
                             [i |-> 0,
                              acc |-> [n \in 1..HASH_SIZE |-> <<0, 0>>],
                              col |-> matrix_a_row_1,
                              hashes |-> 1, overflow |-> FALSE])
         IN  Ok(PreHash64b(st.acc), st.hashes, 0, st.overflow)

matmul_work_64b(hdr) ==
    IF Len(hdr) # HEADER_SIZE_64B
    THEN Err(HeaderSizeError(HEADER_SIZE_64B, Len(hdr)), 0, 0)
    ELSE LET matrix_a_row_1 == blake3_reference_hash(hdr)
             st == Rounds64b(matrix_a_row_1,
                             [i |-> 0,
                              acc |-> [n \in 1..HASH_SIZE |-> <<0, 0>>],
                              col |-> matrix_a_row_1,
                              hashes |-> 1, overflow |-> FALSE])
             result == blake3_reference_hash(PreHash64b(st.acc))
         IN  Ok(result, st.hashes + 1, 0, st.overflow)

\* Mutant of elementary_iteration_64b: the work digest is written over the
\* challenge and the header is hashed twice, as the 217a variant does.
elementary_iteration_64b_Spliced(hdr) ==
    IF Len(hdr) # HEADER_SIZE_64B
    THEN Err(HeaderSizeError(HEADER_SIZE_64B, Len(hdr)), 0, 0)
    ELSE LET work == matmul_work_64b(hdr)
             working_header ==
                 [k \in 1..Len(hdr) |-> IF k > 32 THEN work.val[k - 32] ELSE hdr[k]]
             hash_1 == blake3_reference_hash(working_header)
             hash_2 == blake3_reference_hash(hash_1)
         IN  Ok(hash_2, work.hashes + 2, 32, work.overflow)

elementary_iteration_64b(hdr) ==
    IF Len(hdr) # HEADER_SIZE_64B
    THEN Err(HeaderSizeError(HEADER_SIZE_64B, Len(hdr)), 0, 0)
    ELSE LET work == matmul_work_64b(hdr)
         IN  IF work.status # "Ok"
             THEN work
             ELSE LET hash_1 == blake3_reference_hash(work.val)
                      hash_2 == blake3_reference_hash(hash_1)
                  IN  Ok(hash_2, work.hashes + 2, 0, work.overflow)

\* Mutant of insert_nonce_64b: the nonce goes to the first four bytes of the
\* nonce field instead of the last four.
insert_nonce_64b_AtFieldStart(hdr, n) ==
    IF Len(hdr) # HEADER_SIZE_64B
    THEN Err(HeaderSizeError(HEADER_SIZE_64B, Len(hdr)), 0, 0)
    ELSE Ok(CopyFromSlice(hdr, 0, 4, ToBeBytes(n)), 0, 4, FALSE)

insert_nonce_64b(hdr, n) ==
    IF Len(hdr) # HEADER_SIZE_64B
    THEN Err(HeaderSizeError(HEADER_SIZE_64B, Len(hdr)), 0, 0)
    ELSE Ok(CopyFromSlice(hdr, 28, 32, ToBeBytes(n)), 0, 32 - 28, FALSE)

\* Mutant of set_nonce_64b: only the first 28 bytes of the nonce are
\* written, so the four bytes of the narrow nonce are kept.
set_nonce_64b_KeepNarrow(hdr, w) ==
    IF Len(hdr) # HEADER_SIZE_64B
    THEN Err(HeaderSizeError(HEADER_SIZE_64B, Len(hdr)), 0, 0)
    ELSE IF Len(w) # 32
    THEN Err(NonceSizeError(Len(w)), 0, 0)
    ELSE Ok(CopyFromSlice(hdr, NONCE_START_64B, 28, SubSeq(w, 1, 28)),
            0, NONCE_END_64B - NONCE_START_64B, FALSE)

\* Mutant of set_nonce_64b: the nonce is written one byte late, reaching
\* into the challenge.
set_nonce_64b_OneByteLate(hdr, w) ==
    IF Len(hdr) # HEADER_SIZE_64B
    THEN Err(HeaderSizeError(HEADER_SIZE_64B, Len(hdr)), 0, 0)
    ELSE IF Len(w) # 32
    THEN Err(NonceSizeError(Len(w)), 0, 0)
    ELSE Ok(CopyFromSlice(hdr, NONCE_START_64B + 1, NONCE_END_64B + 1, w),
            0, NONCE_END_64B - NONCE_START_64B, FALSE)

set_nonce_64b(hdr, w) ==
    IF Len(hdr) # HEADER_SIZE_64B
    THEN Err(HeaderSizeError(HEADER_SIZE_64B, Len(hdr)), 0, 0)
    ELSE IF Len(w) # 32
    THEN Err(NonceSizeError(Len(w)), 0, 0)
    ELSE Ok(CopyFromSlice(hdr, NONCE_START_64B, NONCE_END_64B, w),
            0, NONCE_END_64B - NONCE_START_64B, FALSE)

\* ------------------------------------------------------------------------
\* The /api/blake3 route (rs-node) and its client (rs-api-client).
\* Text on the wire is a sequence of character codes.  Base64 text: code
\* k in 0..63 is the k-th character of the standard alphabet, 64 is '=',
\* anything else is a character outside the alphabet.  Hex text: 0..15 are
\* '0'..'9', 'a'..'f', 16..21 are 'A'..'F', anything else is no hex digit.
\* A JSON body is a tagged value: a string, an object (a record of its
\* members) or text that is no JSON at all.
\* ------------------------------------------------------------------------
Pad == 64

\* base64::engine::general_purpose::STANDARD.encode(&data)
STANDARD_encode(data) ==
    LET n == Len(data)
    IN  [k \in 1..(4 * ((n + 2) \div 3)) |->
            LET g   == (k - 1) \div 4
                pos == (k - 1) % 4
                b0  == data[3 * g + 1]
                b1  == IF 3 * g + 2 <= n THEN data[3 * g + 2] ELSE 0
                b2  == IF 3 * g + 3 <= n THEN data[3 * g + 3] ELSE 0
            IN  CASE pos = 0 -> b0 \div 4
                  [] pos = 1 -> (b0 % 4) * 16 + (b1 \div 16)
                  [] pos = 2 -> IF 3 * g + 2 > n THEN Pad
                                ELSE (b1 % 16) * 4 + (b2 \div 64)
                  [] pos = 3 -> IF 3 * g + 3 > n THEN Pad ELSE b2 % 64]

\* The number of '=' that end the text (the decoder takes at most two).
Padding(text) ==
    LET n == Len(text)
    IN  IF n = 0 \/ text[n] # Pad THEN 0
        ELSE IF n = 1 \/ text[n - 1] # Pad THEN 1
        ELSE 2

\* BASE64_STANDARD.decode(&req.data): canonical padding is required and the
\* bits of the last symbol that belong to no byte must be zero.
STANDARD_decode(text) ==
    LET n == Len(text)
        p == Padding(text)
        accepted ==
            /\ n % 4 = 0
            /\ \A k \in 1..(n - p) : text[k] \in 0..63
            /\ p = 1 => text[n - 1] % 4 = 0
            /\ p = 2 => text[n - 2] % 16 = 0
    IN  IF ~accepted THEN [ok |-> FALSE, val |-> <<>>]
        ELSE [ok  |-> TRUE,
              val |-> [j \in 1..(3 * (n \div 4) - p) |->
                          LET g  == (j - 1) \div 3
                              r  == (j - 1) % 3
                              s0 == text[4 * g + 1]
                              s1 == text[4 * g + 2]
                              s2 == text[4 * g + 3]
                              s3 == text[4 * g + 4]
                          IN  CASE r = 0 -> s0 * 4 + (s1 \div 16)
                                [] r = 1 -> (s1 % 16) * 16 + (s2 \div 4)
                                [] r = 2 -> (s2 % 4) * 64 + s3]]

\* hex::encode(hash): two lower-case digits a byte
hex_encode(bytes) ==
    [k \in 1..(2 * Len(bytes)) |->
        LET b == bytes[(k + 1) \div 2]
        IN  IF k % 2 = 1 THEN b \div 16 ELSE b % 16]

\* The value of a hex digit of either case
HexVal(c) == IF c <= 15 THEN c ELSE c - 6

\* hex::decode(&response_data.hash)
hex_decode(text) ==
    LET n == Len(text)
    IN  IF n % 2 # 0 \/ \E k \in 1..n : text[k] \notin 0..21
        THEN [ok |-> FALSE, val |-> <<>>]
        ELSE [ok  |-> TRUE,
              val |-> [j \in 1..(n \div 2) |->
                          HexVal(text[2 * j - 1]) * 16 + HexVal(text[2 * j])]]

\* rs_lib::blake3::blake3_hash: Blake3 again, the same opaque H.
blake3_hash(data) == blake3_reference_hash(data)

JsonString(text) == [kind |-> "string", text |-> text]
JsonObject(members) == [kind |-> "object", members |-> members]
NotJson == [kind |-> "invalid"]

HasMember(v, name) == v.kind = "object" /\ name \in DOMAIN v.members

\* serde: RpcRequest { json: Blake3Request { data } }
SerializeRpcRequest(data) ==
    JsonObject([json |-> JsonObject([data |-> JsonString(data)])])

\* serde: Blake3Response { hash }
SerializeBlake3Response(hash) ==
    JsonObject([hash |-> JsonString(hash)])

\* serde: Blake3Request { data: String }; members it does not know are
\* skipped, a missing or non-string data is an error.
DeserializeBlake3Request(v) ==
    IF HasMember(v, "data") /\ v.members.data.kind = "string"
    THEN [ok |-> TRUE, data |-> v.members.data.text]
    ELSE [ok |-> FALSE, data |-> <<>>]

\* serde: RpcResponse<Blake3Response> { json: Blake3Response { hash: String } }
DeserializeRpcResponse(v) ==
    IF /\ HasMember(v, "json")
       /\ HasMember(v.members.json, "hash")
       /\ v.members.json.members.hash.kind = "string"
    THEN [ok |-> TRUE, hash |-> v.members.json.members.hash.text]
    ELSE [ok |-> FALSE, hash |-> <<>>]

Answer(status, body) == [status |-> status, body |-> body]

\* Mutant of blake3_handler: the size cap is applied to the base64 text
\* instead of the decoded bytes.
blake3_handler_CapOnText(req) ==
    LET data == STANDARD_decode(req.data)
    IN  IF ~data.ok THEN Answer(400, NotJson)
        ELSE IF Len(req.data) > 10 * 1024 THEN Answer(400, NotJson)
        ELSE Answer(200, SerializeBlake3Response(hex_encode(blake3_hash(data.val))))

\* async fn blake3_handler(Json(req): Json<Blake3Request>)
blake3_handler(req) ==
    LET data == STANDARD_decode(req.data)
    IN  IF ~data.ok THEN Answer(400, NotJson)
        ELSE IF Len(data.val) > 10 * 1024 THEN Answer(400, NotJson)
        ELSE Answer(200, SerializeBlake3Response(hex_encode(blake3_hash(data.val))))

\* .route("/api/blake3", post(blake3_handler)): the Json extractor answers
\* for the handler when the body is no JSON (400) or is JSON that is no
\* Blake3Request (422).
PostBlake3(body) ==
    LET req == DeserializeBlake3Request(body)
    IN  IF body.kind = "invalid" THEN Answer(400, NotJson)
        ELSE IF ~req.ok THEN Answer(422, NotJson)
        ELSE blake3_handler(req)

ClientOk(hash) == [status |-> "Ok", val |-> hash, error |-> "none"]
ClientErr(kind) == [status |-> "Err", val |-> <<>>, error |-> kind]

\* response.status().is_success()
is_success(status) == status >= 200 /\ status <= 299

\* KeyPearsClient::blake3, up to the request it sends
blake3_request(data) == SerializeRpcRequest(STANDARD_encode(data))

\* Mutant of blake3_response: the body is parsed before the status is
\* looked at.
blake3_response_ParseFirst(status, body) ==
    LET wrapped_response == DeserializeRpcResponse(body)
        hash_bytes == hex_decode(wrapped_response.hash)
    IN  IF ~wrapped_response.ok THEN ClientErr("RequestError")
        ELSE IF ~is_success(status) THEN ClientErr("HttpError")
        ELSE IF ~hash_bytes.ok THEN ClientErr("InvalidResponse: Invalid hex")
        ELSE IF Len(hash_bytes.val) # 32
             THEN ClientErr("InvalidResponse: Hash must be exactly 32 bytes")
        ELSE ClientOk(hash_bytes.val)

\* KeyPearsClient::blake3, from the response it gets
blake3_response(status, body) ==
    IF ~is_success(status) THEN ClientErr("HttpError")
    ELSE LET wrapped_response == DeserializeRpcResponse(body)
             hash_bytes == hex_decode(wrapped_response.hash)
         IN  IF ~wrapped_response.ok THEN ClientErr("RequestError")
             ELSE IF ~hash_bytes.ok THEN ClientErr("InvalidResponse: Invalid hex")
             ELSE IF Len(hash_bytes.val) # 32
                  THEN ClientErr("InvalidResponse: Hash must be exactly 32 bytes")
             ELSE ClientOk(hash_bytes.val)

\* ------------------------------------------------------------------------
\* The caller: a header buffer, one core call at a time, whose result it
\* either drops or (an insert's result) takes as its header for the next
\* call, as test_work_217a does.
\* ------------------------------------------------------------------------
\* Byte k (0-based) of fill pattern p: all zero, all 0x11 (the two headers of
\* the tests), then ramps.
PatternByte(p, k) ==
    IF p = 0 THEN 0
    ELSE IF p = 1 THEN 17
    ELSE (17 * p + k * (2 * p - 3)) % 256

PatternBuffer(p, len) == [k \in 1..len |-> PatternByte(p, k - 1)]

\* Buffer lengths the caller passes: the two header sizes, their neighbours,
\* and the empty buffer.
HeaderLengths ==
    {0, HEADER_SIZE_64B - 1, HEADER_SIZE_64B, HEADER_SIZE_64B + 1,
     HEADER_SIZE_217A - 1, HEADER_SIZE_217A, HEADER_SIZE_217A + 1}

Headers ==
    {PatternBuffer(p, len) : p \in 0..(NumPatterns - 1), len \in HeaderLengths}

\* u32 nonces: 0x12345678 (test_insert_nonce_64b), 376413 (test_work_217a)
\* and u32::MAX.
Nonces == {<<4660, 22136>>, <<5, 48733>>, <<65535, 65535>>}

\* Byte nonces for set_nonce_64b: 32 bytes of 0x11 (test_set_nonce_64b), a
\* 32-byte ramp, and buffers one byte short and one byte long.
WideNonces ==
    {PatternBuffer(1, 32), PatternBuffer(2, 32),
     PatternBuffer(1, 31), PatternBuffer(2, 33)}

NoRet == Ok(<<>>, 0, 0, FALSE)

\* A u32 overflow panics in a build with overflow checks and wraps in one
\* without: both are outcomes of the call.
Panicked(r) ==
    [status |-> "Panic", val |-> <<>>, msg |-> <<>>,
     hashes |-> r.hashes, writes |-> r.writes, overflow |-> TRUE]

Outcomes(r) == IF r.overflow THEN {r, Panicked(r)} ELSE {r}

NoMac == [variant |-> "none", acc |-> <<0, 0>>, bytes |-> <<>>, overflow |-> FALSE]
NoPrev == [op |-> "none", status |-> "Ok"]
NoProbe ==
    [nonce |-> <<0, 0>>, staged |-> <<>>, seen |-> FALSE, digest |-> NoRet,
     again |-> FALSE, prev |-> NoPrev]

\* No request made.
NoHttp ==
    [phase |-> "idle", origin |-> "none", data |-> <<>>, damage |-> 0,
     text |-> <<>>,
     request |-> NotJson, server |-> "none", status |-> 0,
     response |-> NotJson, result |-> ClientErr("none")]

\* The locals of a diffusion before round 0, but for the working column.
RoundInit ==
    [i |-> 0, acc |-> [n \in 1..HASH_SIZE |-> <<0, 0>>], col |-> <<>>,
     hashes |-> 0, overflow |-> FALSE]

\* No computation started.
NoVec ==
    [phase |-> "idle", row |-> <<>>, st |-> RoundInit, pre |-> <<>>,
     work_par |-> <<>>]

Idle ==
    /\ op = "none"
    /\ nonce = <<0, 0>>
    /\ wnonce = <<>>
    /\ ret = NoRet

Init ==
    /\ hkey \in 0..(NumKeys - 1)
    /\ header \in Headers
    /\ orig = header
    /\ Idle
    /\ headerB = <<>> /\ retB = NoRet
    /\ macRow = <<>> /\ macCol = <<>> /\ mac = NoMac
    /\ probe = NoProbe
    /\ http = NoHttp /\ vec = NoVec

Call(name, r, n, w) ==
    /\ op = "none"
    /\ op' = name
    /\ ret' \in Outcomes(r)
    /\ nonce' = n
    /\ wnonce' = w
    /\ UNCHANGED <<hkey, orig, header, pairVars, macVars, probe, apiVars, vecVars>>

GetWorkPar217a ==
    Call("get_work_par_217a", get_work_par_217a(header), <<0, 0>>, <<>>)

ElementaryIteration217a ==
    Call("elementary_iteration_217a", elementary_iteration_217a(header),
         <<0, 0>>, <<>>)

InsertNonce217a ==
    \E n \in Nonces :
        Call("insert_nonce_217a", insert_nonce_217a(header, n), n, <<>>)

MatmulWork64b ==
    Call("matmul_work_64b", matmul_work_64b(header), <<0, 0>>, <<>>)

ElementaryIteration64b ==
    Call("elementary_iteration_64b", elementary_iteration_64b(header),
         <<0, 0>>, <<>>)

InsertNonce64b ==
    \E n \in Nonces :
        Call("insert_nonce_64b", insert_nonce_64b(header, n), n, <<>>)

SetNonce64b ==
    \E w \in WideNonces :
        Call("set_nonce_64b", set_nonce_64b(header, w), <<0, 0>>, w)

InsertOps == {"insert_nonce_217a", "insert_nonce_64b", "set_nonce_64b"}

\* The caller is done with the result.
Drop ==
    /\ op # "none"
    /\ op' = "none"
    /\ ret' = NoRet
    /\ nonce' = <<0, 0>>
    /\ wnonce' = <<>>
    /\ UNCHANGED <<hkey, orig, header, pairVars, macVars, probe, apiVars, vecVars>>

\* let header = insert_nonce_217a(header.clone(), n).unwrap();
Adopt ==
    /\ op \in InsertOps
    /\ ret.status = "Ok"
    /\ header' = ret.val
    /\ op' = "none"
    /\ ret' = NoRet
    /\ nonce' = <<0, 0>>
    /\ wnonce' = <<>>
    /\ UNCHANGED <<hkey, orig, pairVars, macVars, probe, apiVars, vecVars>>

Next ==
    \/ GetWorkPar217a
    \/ ElementaryIteration217a
    \/ InsertNonce217a
    \/ MatmulWork64b
    \/ ElementaryIteration64b
    \/ InsertNonce64b
    \/ SetNonce64b
    \/ Drop
    \/ Adopt

Spec == Init /\ [][Next]_vars

\* ------------------------------------------------------------------------
\* Diffusion runs: one round of the multiply-accumulate and its
\* serialization, on a seed and a column that are any 32 bytes (H is
\* opaque: every 32-byte value is a possible digest).
\* ------------------------------------------------------------------------
\* Fill bytes at the ends and the middle of the u8 range.
ExtremeBytes == {1, 128, 255}

MacVectors ==
    {PatternBuffer(p, HASH_SIZE) : p \in 0..(NumPatterns - 1)}
        \cup {[k \in 1..HASH_SIZE |-> b] : b \in ExtremeBytes}

InitMac ==
    /\ hkey = 0
    /\ header = <<>> /\ orig = <<>>
    /\ Idle
    /\ headerB = <<>> /\ retB = NoRet
    /\ macRow \in MacVectors
    /\ macCol \in MacVectors
    /\ mac = NoMac
    /\ probe = NoProbe
    /\ http = NoHttp /\ vec = NoVec

\* Round 0 of get_work_par_217a and the four bytes it serializes to.
DiffuseRound217a ==
    /\ mac.variant = "none"
    /\ LET st == Round217a(macRow, macCol, RoundInit)
       IN  mac' \in {[variant |-> "217a", acc |-> st.acc[1],
                      bytes |-> SubSeq(PreHash217a(st.acc), 1, 4),
                      overflow |-> st.overflow]}
    /\ UNCHANGED <<hkey, orig, header, callVars, pairVars, macRow, macCol, probe, apiVars, vecVars>>

\* Round 0 of matmul_work_64b and the four bytes it serializes to.
DiffuseRound64b ==
    /\ mac.variant = "none"
    /\ LET st == Round64b(macRow, macCol, RoundInit)
       IN  mac' \in {[variant |-> "64b", acc |-> st.acc[1],
                      bytes |-> SubSeq(PreHash64b(st.acc), 1, 4),
                      overflow |-> st.overflow]}
    /\ UNCHANGED <<hkey, orig, header, callVars, pairVars, macRow, macCol, probe, apiVars, vecVars>>

NextMac == DiffuseRound217a \/ DiffuseRound64b

SpecMac == InitMac /\ [][NextMac]_vars

\* ------------------------------------------------------------------------
\* Accumulator runs: the inner loop of round 0 one multiply-add at a time,
\* on a seed macRow and a column macCol that are any 32 bytes, and then the
\* whole diffusion of the seed and the 128 bytes it serializes to.  mac.j
\* counts the inner steps done.
\* ------------------------------------------------------------------------
\* let mut matrix_c_row_1 = [0u32; 32] and the first round's column
AccBegin217a ==
    /\ mac.variant = "none"
    /\ mac' = [variant |-> "217a", j |-> 0, acc |-> <<0, 0>>, bytes |-> <<>>,
               overflow |-> FALSE]
    /\ UNCHANGED <<hkey, orig, header, callVars, pairVars, macRow, macCol, probe, apiVars, vecVars>>

AccBegin64b ==
    /\ mac.variant = "none"
    /\ mac' = [variant |-> "64b", j |-> 0, acc |-> <<0, 0>>, bytes |-> <<>>,
               overflow |-> FALSE]
    /\ UNCHANGED <<hkey, orig, header, callVars, pairVars, macRow, macCol, probe, apiVars, vecVars>>

\* One pass of the inner loop of get_work_par_217a
AccStep217a ==
    /\ mac.variant = "217a"
    /\ mac.j < 32
    /\ LET st == MulAccStep217a([j |-> mac.j, val |-> mac.acc, overflow |-> mac.overflow],
                     AddMulU32(mac.acc, macRow[mac.j + 1], macCol[mac.j + 1]))
       IN  mac' = [mac EXCEPT !.j = st.j, !.acc = st.val, !.overflow = st.overflow]
    /\ UNCHANGED <<hkey, orig, header, callVars, pairVars, macRow, macCol, probe, apiVars, vecVars>>

\* One pass of the inner loop of matmul_work_64b
AccStep64b ==
    /\ mac.variant = "64b"
    /\ mac.j < 32
    /\ LET st == MulAccStep64b([j |-> mac.j, val |-> mac.acc, overflow |-> mac.overflow],
                     AddMulU32(mac.acc, macRow[mac.j + 1], macCol[mac.j + 1]))
       IN  mac' = [mac EXCEPT !.j = st.j, !.acc = st.val, !.overflow = st.overflow]
    /\ UNCHANGED <<hkey, orig, header, callVars, pairVars, macRow, macCol, probe, apiVars, vecVars>>

\* The 32 rounds of get_work_par_217a on the seed macRow, serialized
AccSerialize217a ==
    /\ mac.variant = "217a"
    /\ mac.j = 32
    /\ mac.bytes = <<>>
    /\ LET st == Rounds217a(macRow, [RoundInit EXCEPT !.col = macRow])
       IN  mac' \in {[mac EXCEPT !.bytes = PreHash217a(st.acc) \o <<>>,
                                 !.overflow = @ \/ st.overflow]}
    /\ UNCHANGED <<hkey, orig, header, callVars, pairVars, macRow, macCol, probe, apiVars, vecVars>>

\* The 32 rounds of matmul_work_64b on the seed macRow, serialized
AccSerialize64b ==
    /\ mac.variant = "64b"
    /\ mac.j = 32
    /\ mac.bytes = <<>>
    /\ LET st == Rounds64b(macRow, [RoundInit EXCEPT !.col = macRow])
       IN  mac' \in {[mac EXCEPT !.bytes = PreHash64b(st.acc) \o <<>>,
                                 !.overflow = @ \/ st.overflow]}
    /\ UNCHANGED <<hkey, orig, header, callVars, pairVars, macRow, macCol, probe, apiVars, vecVars>>

NextAcc ==
    \/ AccBegin217a
    \/ AccBegin64b
    \/ AccStep217a
    \/ AccStep64b
    \/ AccSerialize217a
    \/ AccSerialize64b

SpecAcc == InitMac /\ [][NextAcc]_vars

\* ------------------------------------------------------------------------
\* Two-variant runs: the caller holds a 217-byte and a 64-byte header, plain
\* or with a nonce inserted, and asks for the work digest of each.
\* ------------------------------------------------------------------------
WithNonces(h, at) ==
    {h} \cup {CopyFromSlice(h, at, at + 4, ToBeBytes(n)) : n \in Nonces}

PairHeaders217a ==
    UNION {WithNonces(PatternBuffer(p, HEADER_SIZE_217A), NONCE_START_217A) :
              p \in 0..(NumPatterns - 1)}

PairHeaders64b ==
    UNION {WithNonces(PatternBuffer(p, HEADER_SIZE_64B), 28) :
              p \in 0..(NumPatterns - 1)}

InitPair ==
    /\ hkey = 0
    /\ header \in PairHeaders217a
    /\ orig = header
    /\ Idle
    /\ headerB \in PairHeaders64b
    /\ retB = NoRet
    /\ macRow = <<>> /\ macCol = <<>> /\ mac = NoMac
    /\ probe = NoProbe
    /\ http = NoHttp /\ vec = NoVec

PairWork217a ==
    /\ op = "none"
    /\ op' = "get_work_par_217a"
    /\ ret' \in Outcomes(get_work_par_217a(header))
    /\ UNCHANGED <<hkey, orig, header, nonce, wnonce, pairVars, macVars, probe, apiVars, vecVars>>

PairWork64b ==
    /\ op = "get_work_par_217a"
    /\ op' = "matmul_work_64b"
    /\ retB' \in Outcomes(matmul_work_64b(headerB))
    /\ UNCHANGED <<hkey, orig, header, nonce, wnonce, ret, headerB, macVars, probe, apiVars, vecVars>>

NextPair == PairWork217a \/ PairWork64b

SpecPair == InitPair /\ [][NextPair]_vars

\* ------------------------------------------------------------------------
\* Repeated trials: the caller, as test_work_217a does, inserts a nonce in
\* its 217-byte header and takes the elementary iteration of the result,
\* again and again, while any other operation of the core is called, before
\* the trial or between its two calls, on the 217-byte header or on a
\* 64-byte one.  probe keeps the digest of the first trial, and for the
\* latest trial the call that came just before its iteration.
\* ------------------------------------------------------------------------
TrialHeaders == {PatternBuffer(p, HEADER_SIZE_217A) : p \in 1..2}

InitDet ==
    /\ hkey = 0
    /\ header \in TrialHeaders
    /\ orig = header
    /\ Idle
    /\ headerB = PatternBuffer(1, HEADER_SIZE_64B)
    /\ retB = NoRet
    /\ macRow = <<>> /\ macCol = <<>> /\ mac = NoMac
    /\ \E n \in Nonces : probe = [NoProbe EXCEPT !.nonce = n]
    /\ http = NoHttp /\ vec = NoVec

\* let header = insert_nonce_217a(header.clone(), nonce).unwrap();
TrialInsert ==
    /\ probe.staged = <<>>
    /\ LET r == insert_nonce_217a(header, probe.nonce)
       IN  /\ r.status = "Ok"
           /\ op' = "insert_nonce_217a"
           /\ ret' = r
           /\ nonce' = probe.nonce
           /\ wnonce' = <<>>
           /\ probe' = [probe EXCEPT !.staged = r.val, !.again = FALSE,
                                     !.prev = NoPrev]
    /\ UNCHANGED <<hkey, orig, header, pairVars, macVars, apiVars, vecVars>>

\* let result = elementary_iteration_217a(&header).unwrap();
TrialIterate ==
    /\ probe.staged # <<>>
    /\ op' = "trial"
    /\ ret' \in Outcomes(elementary_iteration_217a(probe.staged))
    /\ nonce' = probe.nonce
    /\ wnonce' = <<>>
    /\ probe' = [staged |-> <<>>,
                 nonce |-> probe.nonce,
                 seen |-> TRUE,
                 digest |-> IF probe.seen THEN probe.digest ELSE ret',
                 again |-> probe.seen,
                 prev |-> [op |-> op, status |-> ret.status]]
    /\ UNCHANGED <<hkey, orig, header, pairVars, macVars, apiVars, vecVars>>

\* Any other call of the core, whatever came before it.
Other(name, r, n, w) ==
    /\ op' = name
    /\ ret' \in Outcomes(r)
    /\ nonce' = n
    /\ wnonce' = w
    /\ probe' = [probe EXCEPT !.again = FALSE, !.prev = NoPrev]
    /\ UNCHANGED <<hkey, orig, header, pairVars, macVars, apiVars, vecVars>>

\* Arguments of the other calls: the nonce of test_insert_nonce_64b, the
\* byte nonce of test_set_nonce_64b and one a byte short.
OtherNonces == {<<4660, 22136>>}
OtherWideNonces == {PatternBuffer(1, 32), PatternBuffer(1, 31)}

OtherGetWorkPar217a ==
    \E b \in {header, headerB} :
        Other("get_work_par_217a", get_work_par_217a(b), <<0, 0>>, <<>>)

OtherElementaryIteration217a ==
    \E b \in {header, headerB} :
        Other("elementary_iteration_217a", elementary_iteration_217a(b),
              <<0, 0>>, <<>>)

OtherInsertNonce217a ==
    \E b \in {header, headerB}, n \in OtherNonces :
        Other("insert_nonce_217a", insert_nonce_217a(b, n), n, <<>>)

OtherMatmulWork64b ==
    \E b \in {header, headerB} :
        Other("matmul_work_64b", matmul_work_64b(b), <<0, 0>>, <<>>)

OtherElementaryIteration64b ==
    \E b \in {header, headerB} :
        Other("elementary_iteration_64b", elementary_iteration_64b(b),
              <<0, 0>>, <<>>)

OtherInsertNonce64b ==
    \E b \in {header, headerB}, n \in OtherNonces :
        Other("insert_nonce_64b", insert_nonce_64b(b, n), n, <<>>)

OtherSetNonce64b ==
    \E b \in {header, headerB}, w \in OtherWideNonces :
        Other("set_nonce_64b", set_nonce_64b(b, w), <<0, 0>>, w)

NextDet ==
    \/ TrialInsert
    \/ TrialIterate
    \/ OtherGetWorkPar217a
    \/ OtherElementaryIteration217a
    \/ OtherInsertNonce217a
    \/ OtherMatmulWork64b
    \/ OtherElementaryIteration64b
    \/ OtherInsertNonce64b
    \/ OtherSetNonce64b

SpecDet == InitDet /\ [][NextDet]_vars

\* ------------------------------------------------------------------------
\* API runs: one exchange with the /api/blake3 route.  The request comes
\* from KeyPearsClient::blake3 or from a caller that posts the handler's own
\* Blake3Request; the answer comes from the rs-node route or, for the
\* client, from a mock server as in the client's tests.  The connection
\* itself does not fail.
\* ------------------------------------------------------------------------
\* "hello world", the input of the tests
HelloWorld == <<104, 101, 108, 108, 111, 32, 119, 111, 114, 108, 100>>

\* Payload lengths around the 10 KB cap, and one below the cap whose base64
\* text is longer than the cap.
CapLengths == {7700, 10 * 1024 - 1, 10 * 1024, 10 * 1024 + 1, 10 * 1024 + 2}

ApiPayloads ==
    {PatternBuffer(p, len) : p \in 0..(NumPatterns - 1), len \in 0..MaxSmallPayload}
        \cup {HelloWorld}
        \cup {PatternBuffer(2, len) : len \in CapLengths}

\* Ways a base64 text goes wrong: 1 its last character is lost, 2 a
\* character outside the alphabet, 3 padding where none belongs, 4 a last
\* symbol with bits that belong to no byte.  0 leaves the text as it is.
Damage(text, how) ==
    LET n == Len(text)
    IN  CASE how = 0 -> text
          [] how = 1 -> SubSeq(text, 1, n - 1)
          [] how = 2 -> [text EXCEPT ![1] = 65]
          [] how = 3 -> text \o <<Pad, Pad, Pad, Pad>>
          [] how = 4 -> [text EXCEPT ![n - Padding(text)] = 4 * (@ \div 4) + 1]

\* Can the text be damaged that way?  (4 needs padding to spoil.)
Damageable(text, how) ==
    how = 0 \/ (Len(text) > 0 /\ Len(text) <= 4 * MaxSmallPayload
                /\ (how = 4 => Padding(text) > 0))

InitApi ==
    /\ hkey = 0
    /\ header = <<>> /\ orig = <<>>
    /\ Idle
    /\ headerB = <<>> /\ retB = NoRet
    /\ macRow = <<>> /\ macCol = <<>> /\ mac = NoMac
    /\ probe = NoProbe
    /\ http = NoHttp /\ vec = NoVec

\* client.blake3(data), up to .send()
ClientSend ==
    /\ http.phase = "idle"
    /\ \E data \in ApiPayloads :
          http' = [http EXCEPT !.phase = "requested", !.origin = "client",
                               !.data = data,
                               !.text = STANDARD_encode(data),
                               !.request = blake3_request(data)]
    /\ UNCHANGED <<hkey, orig, header, callVars, pairVars, macVars, probe, vecVars>>

\* POST /api/blake3 with a Blake3Request body, by any other caller
DirectPost ==
    /\ http.phase = "idle"
    /\ \E data \in ApiPayloads, how \in 0..4 :
          LET text == STANDARD_encode(data)
          IN  /\ Damageable(text, how)
              /\ http' = [http EXCEPT !.phase = "requested", !.origin = "direct",
                                      !.data = data, !.damage = how,
                                      !.text = Damage(text, how),
                                      !.request = JsonObject(
                                          [data |-> JsonString(Damage(text, how))])]
    /\ UNCHANGED <<hkey, orig, header, callVars, pairVars, macVars, probe, vecVars>>

\* The rs-node server answers.
NodeAnswer ==
    /\ http.phase = "requested"
    /\ LET a == PostBlake3(http.request)
       IN  http' = [http EXCEPT !.phase = "answered", !.server = "node",
                                !.status = a.status, !.response = a.body]
    /\ UNCHANGED <<hkey, orig, header, callVars, pairVars, macVars, probe, vecVars>>

UpperCase(text) == [k \in 1..Len(text) |-> IF text[k] >= 10 THEN text[k] + 6 ELSE text[k]]

\* "not-valid-hex" and "abcd"
NotValidHex == <<99, 99, 99, 99, 99, 10, 99, 99, 13, 99, 99, 14, 99>>
Abcd == <<10, 11, 12, 13>>

\* Bodies a mock server answers with, for a request to hash data.
MockBodies(data) ==
    LET hex == hex_encode(blake3_hash(data))
    IN  << JsonObject([json |-> JsonObject([hash |-> JsonString(hex)])]),
           JsonObject([json |-> JsonObject([hash |-> JsonString(UpperCase(hex))])]),
           JsonObject([json |-> JsonObject([invalid |-> JsonString(Abcd)])]),
           JsonObject([json |-> JsonObject([hash |-> JsonString(NotValidHex)])]),
           JsonObject([json |-> JsonObject([hash |-> JsonString(Abcd)])]),
           JsonObject([json |-> JsonObject([hash |-> JsonString(hex \o <<0, 0>>)])]),
           JsonObject([json |-> JsonObject([hash |-> JsonString(SubSeq(hex, 1, 63))])]),
           JsonObject([json |-> JsonObject([hash |-> JsonString([hex EXCEPT ![64] = 99])])]),
           JsonObject([json |-> JsonString(hex)]),
           SerializeBlake3Response(hex),
           NotJson >>

MockStatuses == {200, 201, 400, 422, 500}

\* A mock server answers the client, as in the client's tests.
MockAnswer ==
    /\ http.phase = "requested"
    /\ http.origin = "client"
    /\ Len(http.data) <= Len(HelloWorld)
    /\ \E status \in MockStatuses, k \in 1..11 :
          http' = [http EXCEPT !.phase = "answered", !.server = "mock",
                               !.status = status,
                               !.response = MockBodies(http.data)[k]]
    /\ UNCHANGED <<hkey, orig, header, callVars, pairVars, macVars, probe, vecVars>>

\* client.blake3(data), from the response on
ClientReceive ==
    /\ http.phase = "answered"
    /\ http.origin = "client"
    /\ http' = [http EXCEPT !.phase = "done",
                            !.result = blake3_response(http.status, http.response)]
    /\ UNCHANGED <<hkey, orig, header, callVars, pairVars, macVars, probe, vecVars>>

NextApi ==
    \/ ClientSend
    \/ DirectPost
    \/ NodeAnswer
    \/ MockAnswer
    \/ ClientReceive

SpecApi == InitApi /\ [][NextApi]_vars

\* ------------------------------------------------------------------------
\* Test-vector runs: H is BLAKE3 itself.  The caller of test_work_217a
\* takes the all-zero or the all-0x11 header, inserts a nonce or not, and
\* asks for the elementary iteration; the diffusion of the header is also
\* followed round by round, its locals in vec.
\* ------------------------------------------------------------------------
\* 376413 and 424378, the nonces of test_work_217a
VecNonces == {<<5, 48733>>, <<6, 31162>>}

InitVec ==
    /\ hkey = Blake3Key
    /\ header \in {PatternBuffer(0, HEADER_SIZE_217A), PatternBuffer(1, HEADER_SIZE_217A)}
    /\ orig = header
    /\ Idle
    /\ headerB = <<>> /\ retB = NoRet
    /\ macRow = <<>> /\ macCol = <<>> /\ mac = NoMac
    /\ probe = NoProbe
    /\ http = NoHttp /\ vec = NoVec

\* let header = insert_nonce_217a(header_all_zeroes.clone(), 376413).unwrap();
VecInsertNonce ==
    /\ op = "none"
    /\ vec.phase = "idle"
    /\ \E n \in VecNonces :
          LET r == insert_nonce_217a(header, n)
          IN  /\ r.status = "Ok"
              /\ header' = r.val
              /\ op' = "insert_nonce_217a"
              /\ nonce' = n
              /\ ret' = r
    /\ UNCHANGED <<hkey, orig, wnonce, pairVars, macVars, probe, apiVars, vecVars>>

\* get_work_par_217a up to its loop: the seed and the working column
VecStart ==
    /\ vec.phase = "idle"
    /\ LET matrix_a_row_1 == blake3_reference_hash(header)
       IN  vec' = [NoVec EXCEPT !.phase = "rounds",
                                !.row = matrix_a_row_1,
                                !.st = [RoundInit EXCEPT !.col = matrix_a_row_1,
                                                         !.hashes = 1]]
    /\ UNCHANGED <<hkey, orig, header, callVars, pairVars, macVars, probe, apiVars>>

\* One round of the loop of get_work_par_217a
VecRound ==
    /\ vec.phase = "rounds"
    /\ vec.st.i < 32
    /\ vec' = [vec EXCEPT !.st = Round217a(vec.row,
                                           blake3_reference_hash(vec.st.col),
                                           vec.st)]
    /\ UNCHANGED <<hkey, orig, header, callVars, pairVars, macVars, probe, apiVars>>

\* get_work_par_217a after its loop: serialization and final hash
VecWorkPar ==
    /\ vec.phase = "rounds"
    /\ vec.st.i = 32
    /\ LET final_pre_hash == PreHash217a(vec.st.acc)
       IN  vec' = [vec EXCEPT !.phase = "work_par",
                              !.pre = final_pre_hash,
                              !.work_par = blake3_reference_hash(final_pre_hash)]
    /\ UNCHANGED <<hkey, orig, header, callVars, pairVars, macVars, probe, apiVars>>

\* let result = elementary_iteration_217a(header).unwrap();
VecIterate ==
    /\ vec.phase = "work_par"
    /\ op' = "elementary_iteration_217a"
    /\ ret' \in Outcomes(elementary_iteration_217a(header))
    /\ vec' = [vec EXCEPT !.phase = "done"]
    /\ UNCHANGED <<hkey, orig, header, nonce, wnonce, pairVars, macVars, probe, apiVars>>

NextVec ==
    \/ VecInsertNonce
    \/ VecStart
    \/ VecRound
    \/ VecWorkPar
    \/ VecIterate

SpecVec == InitVec /\ [][NextVec]_vars

\* ========================================================================
\* Properties.  The definitions below are the statements checked of the
\* model above; they are written from the stated contracts, not from the
\* operators that model the code.
\* ========================================================================
H(x) == blake3_reference_hash(x)

\* <<H(x), H(H(x)), ...>>: element i is H applied i times to x, i = 1..n.
RECURSIVE HashChain(_, _, _)
HashChain(chain, x, n) ==
    IF Len(chain) = n THEN chain
    ELSE HashChain(Append(chain, H(IF chain = <<>> THEN x ELSE chain[Len(chain)])),
                   x, n)

\* sum over j in 0..31 of row[j] * col[j], as an integer.
RECURSIVE DotProduct(_, _, _)
DotProduct(row, col, n) ==
    IF n = 0 THEN 0 ELSE row[n] * col[n] + DotProduct(row, col, n - 1)

\* Byte m (0 = most significant) of x mod 2^32, for an integer x >= 0.
BigEndianByte(x, m) ==
    LET hi == (x \div 65536) % 65536
        lo == x % 65536
    IN  CASE m = 0 -> hi \div 256
          [] m = 1 -> hi % 256
          [] m = 2 -> lo \div 256
          [] m = 3 -> lo % 256

BigEndian4(x) ==
    <<BigEndianByte(x, 0), BigEndianByte(x, 1),
      BigEndianByte(x, 2), BigEndianByte(x, 3)>>

\* acc[i] = sum_j row[j] * col_i[j] with col_i = H^(i+1)(row), i in 0..31,
\* cols being <<col_0, ..., col_31>>.
ClosedAcc(row, cols, i) == DotProduct(row, cols[i + 1], 32)

\* B: acc[i] in bytes 4i..4i+3, most significant byte first, i = 0..31 in
\* order.
RECURSIVE ClosedPreHashFrom(_, _, _)
ClosedPreHashFrom(row, cols, i) ==
    IF i = 32 THEN <<>>
    ELSE BigEndian4(ClosedAcc(row, cols, i)) \o ClosedPreHashFrom(row, cols, i + 1)

ClosedPreHash(row) == ClosedPreHashFrom(row, HashChain(<<>>, row, 32), 0)

\* The diffusion of a seed, and the work digest of a buffer.
ClosedDiffusion(row) == H(ClosedPreHash(row))
ClosedWork(h) == ClosedDiffusion(H(h))

\* C1: for every 217-byte header h, get_work_par_217a(h) returns H(B), with
\* row = H(h), acc[i] = (sum_j row[j] * col_i[j]) mod 2^32, col_i = H applied
\* i+1 times to row, and B the 128 bytes holding acc[i] big-endian at 4i.
C1_WorkParClosedForm ==
    (op = "get_work_par_217a" /\ Len(header) = 217)
        => /\ ret.status = "Ok"
           /\ ret.val = ClosedWork(header)

\* C1's case: the work digest of a 217-byte header that is not all zero.
C1_Witness ==
    /\ op = "get_work_par_217a"
    /\ Len(header) = 217
    /\ ret.status = "Ok"
    /\ \E k \in 1..217 : header[k] # 0
    /\ \E i \in 0..31 : ClosedAcc(H(header), HashChain(<<>>, H(header), 32), i) >= 65536

\* C2: for every 217-byte header h, elementary_iteration_217a(h) returns
\* H(H(h')), h' being h with bytes 185..217 replaced by
\* get_work_par_217a(h) and every byte below 185 (the nonce bytes 117..121
\* among them) as in h.
SplicedHeader(h) ==
    LET w == get_work_par_217a(h).val
    IN  [k \in 1..217 |-> IF k - 1 >= 185 THEN w[k - 185] ELSE h[k]]

C2_ElementaryIteration217a ==
    (op = "elementary_iteration_217a" /\ Len(header) = 217)
        => /\ ret.status = "Ok"
           /\ ret.val = H(H(SplicedHeader(header)))

\* C2's case: an iteration over a header whose nonce bytes are not zero and
\* whose last 32 bytes differ from the work digest spliced over them.
C2_Witness ==
    /\ op = "elementary_iteration_217a"
    /\ Len(header) = 217
    /\ ret.status = "Ok"
    /\ header # orig
    /\ \E k \in 118..121 : header[k] # 0
    /\ SplicedHeader(header) # header

\* C3: for every 64-byte header h, elementary_iteration_64b(h) returns
\* H(H(matmul_work_64b(h))): the work digest is hashed twice and the header
\* takes no part in the last two hashes.
C3_ElementaryIteration64b ==
    (op = "elementary_iteration_64b" /\ Len(header) = 64)
        => /\ ret.status = "Ok"
           /\ ret.val = H(H(matmul_work_64b(header).val))

\* C3's case: an iteration over a 64-byte header that is not all zero.
C3_Witness ==
    /\ op = "elementary_iteration_64b"
    /\ Len(header) = 64
    /\ ret.status = "Ok"
    /\ \E k \in 1..64 : header[k] # 0

\* The decimal numbers a message shows, in order.
DigitTokens == {"0", "1", "2", "3", "4", "5", "6", "7", "8", "9"}

DigitValue(t) ==
    CASE t = "0" -> 0 [] t = "1" -> 1 [] t = "2" -> 2 [] t = "3" -> 3
      [] t = "4" -> 4 [] t = "5" -> 5 [] t = "6" -> 6 [] t = "7" -> 7
      [] t = "8" -> 8 [] t = "9" -> 9

RECURSIVE NumbersFrom(_, _, _, _)
NumbersFrom(msg, k, run, found) ==
    IF k > Len(msg)
    THEN IF run < 0 THEN found ELSE Append(found, run)
    ELSE IF msg[k] \in DigitTokens
    THEN NumbersFrom(msg, k + 1,
                     (IF run < 0 THEN 0 ELSE 10 * run) + DigitValue(msg[k]), found)
    ELSE NumbersFrom(msg, k + 1, -1,
                     IF run < 0 THEN found ELSE Append(found, run))

NumbersShown(msg) == NumbersFrom(msg, 1, -1, <<>>)

Ops217a == {"get_work_par_217a", "elementary_iteration_217a", "insert_nonce_217a"}
Ops64b ==
    {"matmul_work_64b", "elementary_iteration_64b", "insert_nonce_64b",
     "set_nonce_64b"}

RequiredLength(o) == IF o \in Ops217a THEN 217 ELSE 64

\* The call was refused for a buffer of `actual` bytes where `expected` are
\* required, before any hash evaluation or buffer write.
Refused(expected, actual) ==
    /\ ret.status = "Err"
    /\ NumbersShown(ret.msg) = <<expected, actual>>
    /\ ret.hashes = 0
    /\ ret.writes = 0
    /\ ret.val = <<>>

\* C4: every core operation called with a header whose length is not the
\* variant's (217 or 64), or set_nonce_64b with a nonce that is not 32 bytes,
\* returns an error showing the expected size and the actual length, before
\* any hash evaluation or buffer write; with the right lengths it returns no
\* error.
C4_LengthGuard ==
    op # "none"
        => IF Len(header) # RequiredLength(op)
           THEN Refused(RequiredLength(op), Len(header))
           ELSE IF op = "set_nonce_64b" /\ Len(wnonce) # 32
           THEN Refused(32, Len(wnonce))
           ELSE ret.status # "Err"

\* C4's cases: a refused header (here by an iteration, one byte long), a
\* refused nonce, and accepted calls of both variants.
C4_Witness ==
    \/ /\ op = "elementary_iteration_64b"
       /\ Len(header) = 65
       /\ ret.status = "Err"
    \/ /\ op = "insert_nonce_217a"
       /\ Len(header) = 216
       /\ ret.status = "Err"

C4_WitnessNonce ==
    /\ op = "set_nonce_64b"
    /\ Len(header) = 64
    /\ Len(wnonce) = 31
    /\ ret.status = "Err"

\* The four bytes of buf from 0-based index at, read most significant byte
\* first, are the u32 n (kept as two 16-bit halves).
HoldsBigEndian(buf, at, n) ==
    /\ \A m \in 1..4 : buf[at + m] \in 0..255
    /\ buf[at + 1] * 256 + buf[at + 2] = n[1]
    /\ buf[at + 3] * 256 + buf[at + 4] = n[2]

\* C5: for every 217-byte header h and u32 n, insert_nonce_217a(h, n)
\* returns 217 bytes holding n big-endian at 117..121 and h's byte
\* everywhere else, and the caller's h is the same after the call.
C5_InsertNonce217a ==
    [][(op' = "insert_nonce_217a" /\ op = "none" /\ Len(header) = 217)
          => /\ ret'.status = "Ok"
             /\ Len(ret'.val) = 217
             /\ HoldsBigEndian(ret'.val, 117, nonce')
             /\ \A k \in 0..216 :
                    (k < 117 \/ k >= 121) => ret'.val[k + 1] = header[k + 1]
             /\ header' = header]_vars

\* C5's case: 0x12345678 inserted into a 217-byte header that held other
\* bytes there.
C5_Witness ==
    /\ op = "insert_nonce_217a"
    /\ Len(header) = 217
    /\ ret.status = "Ok"
    /\ nonce = <<4660, 22136>>
    /\ \A k \in 118..121 : ret.val[k] # header[k]
    /\ header[1] # header[217]

\* C6: for every 64-byte header h and u32 n, insert_nonce_64b(h, n) returns
\* 64 bytes holding n big-endian at 28..32 and h's byte at 0..28 and 32..64.
C6_InsertNonce64b ==
    (op = "insert_nonce_64b" /\ Len(header) = 64)
        => /\ ret.status = "Ok"
           /\ Len(ret.val) = 64
           /\ HoldsBigEndian(ret.val, 28, nonce)
           /\ \A k \in 0..63 :
                  (k < 28 \/ k >= 32) => ret.val[k + 1] = header[k + 1]

\* C6's case: 0x12345678 inserted into a 64-byte header that held other
\* bytes there.
C6_Witness ==
    /\ op = "insert_nonce_64b"
    /\ Len(header) = 64
    /\ ret.status = "Ok"
    /\ nonce = <<4660, 22136>>
    /\ <<ret.val[29], ret.val[30], ret.val[31], ret.val[32]>> = <<18, 52, 86, 120>>
    /\ \A k \in 29..32 : ret.val[k] # header[k]

\* C7: for every 64-byte header h and 32-byte nonce w, set_nonce_64b(h, w)
\* returns 64 bytes: w at 0..32, then h's challenge bytes 32..64.
C7_SetNonce64b ==
    (op = "set_nonce_64b" /\ Len(header) = 64 /\ Len(wnonce) = 32)
        => /\ ret.status = "Ok"
           /\ Len(ret.val) = 64
           /\ \A k \in 0..31 : ret.val[k + 1] = wnonce[k + 1]
           /\ \A k \in 32..63 : ret.val[k + 1] = header[k + 1]

\* C7's case: a 32-byte nonce set over a header whose nonce field and
\* challenge both differ from it.
C7_Witness ==
    /\ op = "set_nonce_64b"
    /\ Len(header) = 64
    /\ Len(wnonce) = 32
    /\ ret.status = "Ok"
    /\ header[1] # wnonce[1]
    /\ header[33] # wnonce[1]
    /\ header[33] # header[64]

\* The accumulator kept in a wider integer and cut to 32 bits only when it
\* is serialized.
WideBytes(r, c) ==
    BigEndian4(DotProduct(r, c, 32))

\* The accumulator bytes of the code's 32-bit computation.
WrappingBytes(r, c) == SubSeq(PreHash217a(Round217a(r, c, RoundInit).acc), 1, 4)

\* C8 as stated: some row and column bytes make the wider computation and
\* the 32-bit one give different accumulator bytes.
C8_SomeInputDiffers ==
    \E r \in MacVectors \cup {macRow}, c \in MacVectors \cup {macCol} :
        WideBytes(r, c) # WrappingBytes(r, c)

\* C8, amended: for all row and column bytes the wider computation cut to
\* 32 bits at serialization gives the bytes of the 32-bit computation, which
\* never leaves the u32 range (at most 32 * 255 * 255 = 2,080,800).
C8_WideEqualsWrapping ==
    mac.variant # "none"
        => /\ mac.bytes = WideBytes(macRow, macCol)
           /\ ~mac.overflow
           /\ DotProduct(macRow, macCol, 32) <= 32 * 255 * 255

\* C8's case: the largest accumulator there is, every byte 255.
C8_Witness ==
    /\ mac.variant # "none"
    /\ \A k \in 1..32 : macRow[k] = 255 /\ macCol[k] = 255
    /\ DotProduct(macRow, macCol, 32) = 2080800
    /\ mac.bytes = <<0, 31, 192, 32>>

\* C9: get_work_par_217a and matmul_work_64b are one diffusion function of
\* the seed: each returns the diffusion of the hash of its header (the same
\* 32 rounds, accumulation and big-endian serialization), so a 217-byte a and
\* a 64-byte b with H(a) = H(b) get the same work digest.
C9_SameDiffusion ==
    (op = "matmul_work_64b" /\ Len(header) = 217 /\ Len(headerB) = 64)
        => /\ ret.status = "Ok" /\ retB.status = "Ok"
           /\ ret.val = ClosedDiffusion(H(header))
           /\ retB.val = ClosedDiffusion(H(headerB))
           /\ H(header) = H(headerB) => ret.val = retB.val

\* C9's case: both work digests taken of two headers with the same seed.
C9_Witness ==
    /\ op = "matmul_work_64b"
    /\ Len(header) = 217 /\ Len(headerB) = 64
    /\ ret.status = "Ok" /\ retB.status = "Ok"
    /\ H(header) = H(headerB)
    /\ \E i \in 0..31 : ClosedAcc(H(headerB), HashChain(<<>>, H(headerB), 32), i) >= 65536

\* h with the u32 n in big-endian order over bytes 117..120.
WithNonce(h, n) ==
    [k \in 1..217 |->
        CASE k = 118 -> n[1] \div 256
          [] k = 119 -> n[1] % 256
          [] k = 120 -> n[2] \div 256
          [] k = 121 -> n[2] % 256
          [] OTHER   -> h[k]]

C10_WitnessAfterFailure ==
    /\ op = "trial"
    /\ probe.again
    /\ probe.prev = [op |-> "set_nonce_64b", status |-> "Err"]

DigestOps ==
    {"get_work_par_217a", "elementary_iteration_217a",
     "matmul_work_64b", "elementary_iteration_64b"}

\* The call in progress was given inputs of the lengths its function asks.
RightLengths ==
    /\ Len(header) = RequiredLength(op)
    /\ op = "set_nonce_64b" => Len(wnonce) = 32

\* C11: on every input of the required length, get_work_par_217a,
\* elementary_iteration_217a, matmul_work_64b and elementary_iteration_64b
\* return exactly 32 bytes, and insert_nonce_217a, insert_nonce_64b and
\* set_nonce_64b return a buffer of the header's length (217, 64, 64).
C11_ResultLengths ==
    /\ (op \in DigestOps /\ RightLengths)
           => ret.status = "Ok" /\ Len(ret.val) = 32
    /\ (op \in InsertOps /\ RightLengths)
           => /\ ret.status = "Ok"
              /\ Len(ret.val) = Len(header)
              /\ Len(ret.val) = IF op = "insert_nonce_217a" THEN 217 ELSE 64

\* C11's case: the work digest of the all-0x11 64-byte header, taken after a
\* nonce was written into it.
C11_Witness ==
    /\ op = "matmul_work_64b"
    /\ orig = [k \in 1..64 |-> 17]
    /\ header # orig
    /\ ret.status = "Ok"
    /\ Len(ret.val) = 32

\* The client's call came back from the repository's own server.
ServedByNode ==
    http.phase = "done" /\ http.origin = "client" /\ http.server = "node"

\* C12: KeyPearsClient::blake3(data) sent to the POST /api/blake3 handler
\* succeeds for every data of at most 10 KB and returns the 32-byte digest
\* the server computes of those bytes: the handler accepts the client's
\* request body and the client accepts the handler's response body.
C12_ClientServerRoundTrip ==
    (ServedByNode /\ Len(http.data) <= 10240)
        => /\ http.status = 200
           /\ http.result.status = "Ok"
           /\ Len(http.result.val) = 32
           /\ http.result.val = H(http.data)

\* What the code does instead: the client wraps its request in a json
\* member the handler's Blake3Request does not have, so the route refuses
\* every request of the client and the call ends in an HTTP error.
C12_EveryCallRefused ==
    ServedByNode
        => /\ ~HasMember(http.request, "data")
           /\ http.status = 422
           /\ http.result = ClientErr("HttpError")

\* The failing call: "hello world" sent to the rs-node server.
C12_Witness ==
    /\ ServedByNode
    /\ http.data = HelloWorld
    /\ http.result.status = "Err"

\* The nibbles of text are the bytes' hex digits, two a byte, high one first.
IsHexOf(text, bytes) ==
    /\ Len(text) = 2 * Len(bytes)
    /\ \A j \in 1..Len(bytes) :
          /\ text[2 * j - 1] \in 0..15
          /\ text[2 * j] \in 0..15
          /\ text[2 * j - 1] * 16 + text[2 * j] = bytes[j]

\* A Blake3Request reached the handler and was answered.
Handled ==
    /\ http.phase = "answered"
    /\ http.server = "node"
    /\ HasMember(http.request, "data")

\* C13: the handler answers 400 exactly when the data field is not valid
\* standard base64 or decodes to more than 10240 bytes (the cap is on the
\* decoded length, and exactly 10240 bytes are accepted); in every other
\* case it answers 200 with the 64 hex characters of the digest of the
\* decoded bytes, empty data included.
C13_HandlerAnswers ==
    Handled
        => /\ http.status \in {200, 400}
           /\ http.status = 400 <=> (http.damage # 0 \/ Len(http.data) > 10240)
           /\ http.status = 200
                  => /\ HasMember(http.response, "hash")
                     /\ Len(http.response.members.hash.text) = 64
                     /\ IsHexOf(http.response.members.hash.text, H(http.data))

\* C13's case: a payload of exactly 10240 bytes, whose base64 text is longer
\* than the cap, is accepted.
C13_Witness ==
    /\ Handled
    /\ Len(http.data) = 10240
    /\ Len(http.text) > 10240
    /\ http.status = 200

\* Other cases of C13: empty data accepted, 10241 bytes refused, damaged
\* base64 refused.
C13_WitnessEmpty == Handled /\ http.text = <<>> /\ http.status = 200
C13_WitnessTooLarge ==
    Handled /\ Len(http.data) = 10241 /\ http.damage = 0 /\ http.status = 400
C13_WitnessBadBase64 ==
    Handled /\ http.damage = 4 /\ http.status = 400

\* The hash member of the json member of a response body, if it has one.
HasJsonHash(body) ==
    /\ HasMember(body, "json")
    /\ HasMember(body.members.json, "hash")
    /\ body.members.json.members.hash.kind = "string"

JsonHash(body) == body.members.json.members.hash.text

IsHexText(text) ==
    Len(text) % 2 = 0 /\ \A k \in 1..Len(text) : text[k] \in 0..21

\* The byte two hex digits of either case stand for.
HexPair(hi, lo) ==
    (IF hi >= 16 THEN hi - 6 ELSE hi) * 16 + (IF lo >= 16 THEN lo - 6 ELSE lo)

Acceptable(status, body) ==
    /\ status \in 200..299
    /\ HasJsonHash(body)
    /\ IsHexText(JsonHash(body))
    /\ Len(JsonHash(body)) = 2 * 32

\* C14: KeyPearsClient::blake3 returns Ok only when the status is a success
\* status and the body is a JSON object whose json.hash is valid hex of
\* exactly 32 bytes; a non-success status, a body without json.hash, a
\* non-hex hash or a hash of another length each yield Err, and the status
\* is checked before the body is parsed.
C14_ClientAccepts ==
    http.phase = "done"
        => /\ http.result.status = "Ok" <=> Acceptable(http.status, http.response)
           /\ http.result.status = "Ok"
                  => \A j \in 1..32 :
                         http.result.val[j] =
                             HexPair(JsonHash(http.response)[2 * j - 1],
                                     JsonHash(http.response)[2 * j])
           /\ http.status \notin 200..299 => http.result = ClientErr("HttpError")
           /\ (http.status \in 200..299 /\ ~HasJsonHash(http.response))
                  => http.result = ClientErr("RequestError")
           /\ (http.status \in 200..299 /\ HasJsonHash(http.response)
                   /\ ~Acceptable(http.status, http.response))
                  => /\ http.result.status = "Err"
                     /\ http.result.error \notin {"HttpError", "RequestError"}

\* C14's case: a body that is no JSON under a non-success status ends in
\* the HTTP error, not in a parse error.
C14_Witness ==
    /\ http.phase = "done"
    /\ http.server = "mock"
    /\ http.status = 400
    /\ http.response.kind = "invalid"
    /\ http.result = ClientErr("HttpError")

\* Other cases of C14: an accepted answer, with upper-case digits; a hash of
\* two bytes; a hash that is no hex.
C14_WitnessOk ==
    /\ http.phase = "done"
    /\ http.result.status = "Ok"
    /\ \E k \in 1..64 : JsonHash(http.response)[k] >= 16
C14_WitnessShort ==
    /\ http.phase = "done"
    /\ http.status = 200
    /\ HasJsonHash(http.response)
    /\ JsonHash(http.response) = Abcd
    /\ http.result = ClientErr("InvalidResponse: Hash must be exactly 32 bytes")
C14_WitnessNotHex ==
    /\ http.phase = "done"
    /\ http.status = 200
    /\ HasJsonHash(http.response)
    /\ JsonHash(http.response) = NotValidHex
    /\ http.result = ClientErr("InvalidResponse: Invalid hex")

\* The digests of the tests, as bytes.
Digest376413 ==
    <<0, 0, 0, 4, 240, 172, 137, 215, 95, 19, 95, 24, 74, 187, 240, 168,
      47, 173, 30, 7, 251, 74, 41, 173, 177, 89, 100, 141, 112, 173, 244, 116>>
Digest424378 ==
    <<0, 0, 0, 75, 210, 214, 11, 123, 103, 112, 34, 129, 168, 123, 20, 228,
      92, 101, 212, 4, 101, 220, 65, 250, 38, 57, 239, 132, 240, 80, 22, 74>>
WorkParZeroes ==
    <<111, 233, 237, 220, 57, 187, 65, 131, 196, 72, 83, 196, 24, 118, 128, 27,
      233, 74, 19, 142, 169, 173, 234, 137, 244, 10, 8, 68, 45, 47, 121, 184>>
IterationZeroes ==
    <<200, 143, 89, 27, 250, 128, 18, 110, 154, 20, 215, 109, 71, 60, 168, 174,
      122, 197, 120, 237, 30, 172, 1, 80, 252, 188, 6, 116, 47, 79, 125, 111>>

AllBytes(b) == [k \in 1..217 |-> b]

\* The iteration was taken of the header that started as every byte b and
\* has the u32 n, big-endian, at 117..121.
IteratedOn(b, n) ==
    /\ op = "elementary_iteration_217a"
    /\ orig = AllBytes(b)
    /\ nonce = n
    /\ header = WithNonce(AllBytes(b), n)

\* C15 as stated: elementary_iteration_A of the 217 bytes all 0x11 with
\* nonce 376413 at bytes 117..121 is 00000004f0ac89d7...adf474.
C15_AllOnesVector ==
    IteratedOn(17, <<5, 48733>>)
        => ret.status = "Ok" /\ ret.val = Digest376413

\* C15, amended: elementary_iteration_A of the 217 bytes all 0x00 with nonce
\* 376413 big-endian at bytes 117..121 is 00000004f0ac89d7...adf474 (and of
\* the 217 bytes all 0x11 with nonce 424378, 0000004bd2d60b7b...50164a).
C15_AllZeroesVector ==
    /\ IteratedOn(0, <<5, 48733>>)
           => ret.status = "Ok" /\ ret.val = Digest376413
    /\ IteratedOn(17, <<6, 31162>>)
           => ret.status = "Ok" /\ ret.val = Digest424378

\* C15's case: the iteration of the all-zero header with 376413 in it.
C15_Witness ==
    /\ IteratedOn(0, <<5, 48733>>)
    /\ SubSeq(header, 118, 121) = <<0, 5, 190, 93>>
    /\ SubSeq(ret.val, 1, 4) = <<0, 0, 0, 4>>

\* The other vectors of the tests: the work digest and the iteration of the
\* all-zero header, and the round-by-round run ends in the digest the
\* iteration splices in.
C15_OtherVectors ==
    /\ (vec.phase \in {"work_par", "done"} /\ header = AllBytes(0))
           => vec.work_par = WorkParZeroes
    /\ IteratedOn(0, <<0, 0>>) => ret.val = IterationZeroes
    /\ vec.phase = "done"
           => ret.val = H(H([k \in 1..217 |->
                                IF k > 185 THEN vec.work_par[k - 185] ELSE header[k]]))

\* The largest sum of 32 products of two bytes, as limbs:
\* 32 * 255 * 255 = 2,080,800 = 31 * 65536 + 49184.
AtMostMaxAccumulator(x) == x[1] < 31 \/ (x[1] = 31 /\ x[2] <= 49184)

\* C16: in both diffusion routines the multiply-accumulate never leaves the
\* u32 range, so the plain * and += never abort: after every inner step the
\* accumulator is at most 32 * 255 * 255 = 2,080,800, and the most
\* significant byte of every serialized accumulator (bytes 0, 4, ..., 124 of
\* the 128-byte pre-hash buffer) is 0.
C16_AccumulatorsFit ==
    mac.variant # "none"
        => /\ ~mac.overflow
           /\ AtMostMaxAccumulator(mac.acc)
           /\ Len(mac.bytes) \in {0, 128}
           /\ \A k \in 1..Len(mac.bytes) : (k - 1) % 4 = 0 => mac.bytes[k] = 0

\* C16's case: the inner loop of matmul_work_64b run to its end on bytes
\* all 255, the accumulator at its maximum, and the buffer serialized.
C16_Witness ==
    /\ mac.variant = "64b"
    /\ mac.j = 32
    /\ \A k \in 1..32 : macRow[k] = 255 /\ macCol[k] = 255
    /\ mac.acc = <<31, 49184>>
    /\ Len(mac.bytes) = 128
    /\ \E k \in 1..128 : mac.bytes[k] # 0

\* The 32-byte nonces among those the caller passes
FullNonces == {w \in WideNonces : Len(w) = 32}

\* C17: the two nonce writes of pow5-64b overlap and the later one wins on
\* the overlap: set_nonce_64b after insert_nonce_64b gives what set_nonce_64b
\* alone gives, insert_nonce_64b after set_nonce_64b gives the set header but
\* for bytes 28..32, which hold the big-endian n; each insert is idempotent;
\* and whatever nonce writes were made, bytes 32..64 (64-byte header) and
\* all bytes outside 117..121 (217-byte header) are those of the original.
C17_LaterWriteWins ==
    /\ Len(header) = Len(orig)
    /\ Len(orig) = HEADER_SIZE_64B
           => /\ SubSeq(header, 33, 64) = SubSeq(orig, 33, 64)
              /\ \A n \in Nonces, w \in FullNonces :
                    /\ set_nonce_64b(insert_nonce_64b(header, n).val, w)
                           = set_nonce_64b(header, w)
                    /\ set_nonce_64b(header, w).val = w \o SubSeq(orig, 33, 64)
                    /\ insert_nonce_64b(set_nonce_64b(header, w).val, n).val
                           = SubSeq(w, 1, 28) \o ToBeBytes(n) \o SubSeq(orig, 33, 64)
    /\ Len(orig) = HEADER_SIZE_217A
           => \A k \in 1..HEADER_SIZE_217A :
                  (k <= 117 \/ k > 121) => header[k] = orig[k]
    /\ (op = "set_nonce_64b" /\ ret.status = "Ok")
           => /\ ret.val = wnonce \o SubSeq(orig, 33, 64)
              /\ set_nonce_64b(ret.val, wnonce).val = ret.val
    /\ (op = "insert_nonce_64b" /\ ret.status = "Ok")
           => /\ ret.val = SubSeq(header, 1, 28) \o ToBeBytes(nonce)
                               \o SubSeq(orig, 33, 64)
              /\ insert_nonce_64b(ret.val, nonce).val = ret.val
    /\ (op = "insert_nonce_217a" /\ ret.status = "Ok")
           => /\ ret.val = SubSeq(orig, 1, 117) \o ToBeBytes(nonce)
                               \o SubSeq(orig, 122, 217)
              /\ insert_nonce_217a(ret.val, nonce).val = ret.val

\* C17's case: set_nonce_64b on a header that holds an earlier
\* insert_nonce_64b of 0x12345678, the set nonce replacing those four bytes.
C17_Witness ==
    /\ op = "set_nonce_64b"
    /\ ret.status = "Ok"
    /\ SubSeq(header, 29, 32) = <<18, 52, 86, 120>>
    /\ SubSeq(header, 29, 32) # SubSeq(orig, 29, 32)
    /\ SubSeq(header, 1, 28) = SubSeq(orig, 1, 28)
    /\ SubSeq(ret.val, 29, 32) = SubSeq(wnonce, 29, 32)
    /\ SubSeq(ret.val, 29, 32) # SubSeq(header, 29, 32)

\* The other order: insert_nonce_64b on a header that holds an earlier
\* set_nonce_64b, which it keeps but for bytes 28..32.
C17_WitnessInsertAfterSet ==
    /\ op = "insert_nonce_64b"
    /\ ret.status = "Ok"
    /\ SubSeq(header, 1, 32) \in FullNonces
    /\ SubSeq(header, 1, 32) # SubSeq(orig, 1, 32)
    /\ SubSeq(ret.val, 1, 28) = SubSeq(header, 1, 28)
    /\ SubSeq(ret.val, 29, 32) = ToBeBytes(nonce)
    /\ SubSeq(ret.val, 29, 32) # SubSeq(header, 29, 32)

====
